---- MODULE Spec2Model ----
(***************************************************************************)
(* A model of src/app.py, the Streamlit crypto dashboard: the login gate,  *)
(* the cached price fetches, the report formatting, the up/down chart      *)
(* traces, the client timezone and the speech buttons.                     *)
(*                                                                         *)
(* One script run of main() is one action.  The pure parts of a run        *)
(* (authenticate, the value formatting of render_coin_details, the trace   *)
(* construction) are operators, and are also exercised on wider input sets *)
(* by SpecPure.  SpecCache follows the two cached fetches around the       *)
(* expiry time.                                                            *)
(***************************************************************************)
EXTENDS Integers, Sequences, FiniteSets, TLC

VARIABLES
    userFile,    \* content of user.json
    session,     \* st.session_state: a function from the keys present to values
    browserTz,   \* timezone the browser script has posted ("none" before)
    now,         \* wall clock, seconds
    quoteCache,  \* st.cache_data store of get_crypto_data: <<>> or <<entry>>
    histCache,   \* st.cache_data store of get_historical_data, per crypto_id
    rerun,       \* st.rerun() was called: the script runs again at once
    out,         \* what the last script run did and displayed
    probe,       \* input of a pure function under test
    result,      \* its result
    pc           \* "idle" | "ready" | "done" for the pure function harness

vars == <<userFile, session, browserTz, now, quoteCache, histCache, rerun, out,
          probe, result, pc>>

appVars == <<userFile, session, browserTz, now, quoteCache, histCache, rerun, out>>

fnVars == <<probe, result, pc>>

(***************************************************************************)
(* JSON numbers.  A number is kept as its decimal digits, integer part ip  *)
(* and fraction part fp, because market capitalisations exceed 32 bits.    *)
(* kind "int" is a Python int, "float" a Python float (fp non-empty, no    *)
(* trailing zero except a single 0), "null" is JSON null / None and        *)
(* "absent" a key that is not in the dict.                                 *)
(***************************************************************************)
PyInt(ds) == [kind |-> "int", ip |-> ds, fp |-> <<>>]

PyFloat(ds, fs) == [kind |-> "float", ip |-> ds, fp |-> fs]

Null == [kind |-> "null", ip |-> <<>>, fp |-> <<>>]

Absent == [kind |-> "absent", ip |-> <<>>, fp |-> <<>>]

Zero == PyInt(<<0>>)

AllZero(ds) == \A i \in 1..Len(ds) : ds[i] = 0

\* dict.get(key, None): an absent key reads as None.
Get(v) == IF v.kind = "absent" THEN Null ELSE v

\* Python truthiness of a value read from the quote: None, 0 and 0.0 are falsy.
Truthy(v) == v.kind \in {"int", "float"} /\ ~(AllZero(v.ip) /\ AllZero(v.fp))

RECURSIVE Inc(_)
\* The digit string plus one.
Inc(ds) ==
    IF ds = <<>> THEN <<1>>
    ELSE IF ds[Len(ds)] = 9 THEN Inc(SubSeq(ds, 1, Len(ds) - 1)) \o <<0>>
    ELSE SubSeq(ds, 1, Len(ds) - 1) \o <<ds[Len(ds)] + 1>>

RECURSIVE StripZeros(_)
\* A float's fraction digits without trailing zeros, one digit at least.
StripZeros(fs) ==
    IF Len(fs) > 1 /\ fs[Len(fs)] = 0 THEN StripZeros(SubSeq(fs, 1, Len(fs) - 1))
    ELSE fs

\* round(v, 2).  An int is returned unchanged.  A float is rounded to the
\* nearest hundredth, an exact tie to the even hundredth (the inputs used
\* are floats whose ties are exact in binary: multiples of 1/8).
round2(v) ==
    IF v.kind = "int" \/ Len(v.fp) <= 2 THEN v
    ELSE LET rest == SubSeq(v.fp, 3, Len(v.fp))
             tie  == rest[1] = 5 /\ AllZero(Tail(rest))
             up   == IF tie THEN v.fp[2] % 2 = 1 ELSE rest[1] >= 5
             keep == v.ip \o SubSeq(v.fp, 1, 2)
             h    == IF up THEN Inc(keep) ELSE keep
         IN  PyFloat(SubSeq(h, 1, Len(h) - 2),
                   StripZeros(SubSeq(h, Len(h) - 1, Len(h))))

\* "price = round(price, 2) if price else 0"
Rounded(v) == IF Truthy(v) THEN round2(v) ELSE Zero

DigitStr == <<"0", "1", "2", "3", "4", "5", "6", "7", "8", "9">>

RECURSIVE Str(_)
Str(ds) == IF ds = <<>> THEN "" ELSE DigitStr[Head(ds) + 1] \o Str(Tail(ds))

RECURSIVE Commas(_)
\* The integer digits grouped in threes from the right.
Commas(ds) ==
    IF Len(ds) <= 3 THEN Str(ds)
    ELSE Commas(SubSeq(ds, 1, Len(ds) - 3)) \o "," \o Str(SubSeq(ds, Len(ds) - 2, Len(ds)))

\* f"{v:,}": an int prints its digits, a float its shortest repr.
FormatComma(v) ==
    Commas(v.ip) \o (IF v.kind = "float" THEN "." \o Str(v.fp) ELSE "")

\* f"${v:,}"
Money(v) == "$" \o FormatComma(v)

\* report_text
ReportText(coin_name, price, volume, market_cap) ==
    "The current price of " \o coin_name \o " is " \o price \o ". "
    \o "The 24-hour trading volume is " \o volume \o ", "
    \o "and the market capitalization is " \o market_cap \o "."

(***************************************************************************)
(* The quote mapping returned by /simple/price.  Each coin's entry is      *)
(* absent, null or a dict of three values.                                 *)
(***************************************************************************)
Coins == {"bitcoin", "ethereum"}

CoinName(c) == IF c = "bitcoin" THEN "Bitcoin" ELSE "Ethereum"

NoEntry == [kind |-> "absent", usd |-> Absent, usd_24h_vol |-> Absent,
            usd_market_cap |-> Absent]

NullEntry == [kind |-> "null", usd |-> Absent, usd_24h_vol |-> Absent,
              usd_market_cap |-> Absent]

Entry(p, v, m) == [kind |-> "dict", usd |-> p, usd_24h_vol |-> v,
                   usd_market_cap |-> m]

EmptyQuotes == [c \in Coins |-> NoEntry]

\* "if not crypto_data": an empty dict is falsy.
IsEmptyDict(q) == \A c \in Coins : q[c].kind = "absent"

NoDisplay == [raised |-> FALSE, price |-> "", volume |-> "", market_cap |-> "",
              report |-> ""]

\* render_coin_details up to the report card: the three metric strings and
\* the report sentence, or the AttributeError of None.get when the coin's
\* entry is null.
CoinDisplay(coin_id, crypto_data) ==
    LET e == crypto_data[coin_id] IN
    IF e.kind = "null" THEN [NoDisplay EXCEPT !.raised = TRUE]
    ELSE LET price      == Money(Rounded(Get(e.usd)))
             volume     == Money(Rounded(Get(e.usd_24h_vol)))
             market_cap == Money(Rounded(Get(e.usd_market_cap)))
         IN  [raised |-> FALSE, price |-> price, volume |-> volume,
              market_cap |-> market_cap,
              report |-> ReportText(CoinName(coin_id), price, volume, market_cap)]

(***************************************************************************)
(* The historical series and the two chart traces.                         *)
(***************************************************************************)
RECURSIVE Labels(_, _, _)
\* df[df["price_diff"] > 0].index (sign = 1) and df[df["price_diff"] < 0].index
\* (sign = -1), from row i on: the timestamps of the selected rows, in row
\* order.  Row 1 has no difference (NaN) and is selected by neither.
Labels(series, sign, i) ==
    IF i > Len(series) THEN <<>>
    ELSE LET d   == IF i = 1 THEN 0 ELSE series[i].price - series[i - 1].price
             sel == IF sign = 1 THEN d > 0 ELSE d < 0
         IN  (IF i > 1 /\ sel THEN <<series[i].ts>> ELSE <<>>)
             \o Labels(series, sign, i + 1)

RECURSIVE RowsAt(_, _, _)
\* The prices of every row labelled ts, in row order.
RowsAt(series, ts, i) ==
    IF i > Len(series) THEN <<>>
    ELSE (IF series[i].ts = ts THEN <<series[i].price>> ELSE <<>>)
         \o RowsAt(series, ts, i + 1)

RECURSIVE Loc(_, _)
\* df.loc[labels, "price"]: a label lookup, so each label yields every row
\* that carries it.
Loc(series, labels) ==
    IF labels = <<>> THEN <<>>
    ELSE RowsAt(series, Head(labels), 1) \o Loc(series, Tail(labels))

\* One go.Scatter trace.
Trace(series, sign) ==
    LET idx == Labels(series, sign, 1) IN [x |-> idx, y |-> Loc(series, idx)]

NoChart == [drawn |-> FALSE, tz |-> "none", up |-> [x |-> <<>>, y |-> <<>>],
            down |-> [x |-> <<>>, y |-> <<>>]]

\* The figure of render_coin_details for a non-empty frame.
Chart(series, tz) ==
    [drawn |-> TRUE, tz |-> tz, up |-> Trace(series, 1), down |-> Trace(series, -1)]

(***************************************************************************)
(* user.json and authenticate.                                             *)
(***************************************************************************)
Usernames == {"alice", "Alice"}

Passwords == {"pw", "PW"}

NoUsers == [u \in {} |-> ""]

\* File states: no file, text that is not JSON, and the JSON values null,
\* an array of strings and an object of strings.
FileMissing == [kind |-> "missing", map |-> NoUsers, items |-> {}]

FileInvalid == [kind |-> "invalid", map |-> NoUsers, items |-> {}]

FileNull == [kind |-> "null", map |-> NoUsers, items |-> {}]

FileArray(s) == [kind |-> "array", map |-> NoUsers, items |-> s]

FileObject(m) == [kind |-> "object", map |-> m, items |-> {}]

\* load_users: json.load's value, or {} with an st.error when open or
\* json.load raised.
load_users(file) ==
    CASE file.kind = "missing" ->
            [users |-> FileObject(NoUsers), error |-> "User data file not found."]
      [] file.kind = "invalid" ->
            [users |-> FileObject(NoUsers), error |-> "Error loading user data"]
      [] OTHER -> [users |-> file, error |-> ""]

\* authenticate: "true", "false", or "raise" when the loaded value is not a
\* dict: `username in None` raises TypeError, and a list that holds the
\* username passes `in` and raises TypeError on users[username].
authenticate(file, username, password) ==
    LET users == load_users(file).users IN
    CASE users.kind = "object" ->
            IF username \in DOMAIN users.map /\ users.map[username] = password
            THEN "true" ELSE "false"
      [] users.kind = "array" -> IF username \in users.items THEN "raise" ELSE "false"
      [] OTHER -> "raise"

(***************************************************************************)
(* The two cached fetches.  A response is what requests.get, raise_for_status *)
(* and response.json() make of one GET.                                    *)
(***************************************************************************)
TTL == 60

FailureStatus == {"transport", "http_error", "parse_error"}

QuoteResponse(status, body) == [status |-> status, body |-> body]

HistoryResponse(status, prices) == [status |-> status, prices |-> prices]

\* The body of get_crypto_data: one GET; any exception becomes an st.error
\* and the empty dict.
get_crypto_dataSilent(resp) ==
    IF resp.status = "ok" THEN [value |-> resp.body, error |-> ""]
    ELSE [value |-> EmptyQuotes, error |-> ""]

get_crypto_data(resp) ==
    IF resp.status = "ok" THEN [value |-> resp.body, error |-> ""]
    ELSE [value |-> EmptyQuotes, error |-> "Error fetching crypto data"]

\* The body of get_historical_data: one GET; a failure, or a body without a
\* usable "prices" list, becomes an st.error and the empty frame.
get_historical_data(resp) ==
    IF resp.status = "ok" THEN [value |-> resp.prices, error |-> ""]
    ELSE [value |-> <<>>, error |-> "Error fetching historical data"]

\* st.cache_data(ttl=60): an entry stored at time s answers calls made before
\* s + ttl.
HitAlwaysMiss(cache, t) == FALSE

Hit(cache, t) == cache # <<>> /\ t < cache[1].stored + TTL

\* A call of a cached function at time t: the stored value on a hit, else the
\* body runs (requests = 1) and its return value (with the st.error it
\* showed) is stored with the time of the call.
CachedCall(cache, t, fresh) ==
    IF Hit(cache, t)
    THEN [cache |-> cache, value |-> cache[1].value, error |-> cache[1].error,
          requests |-> 0]
    ELSE [cache |-> <<[value |-> fresh.value, error |-> fresh.error,
                       stored |-> t]>>,
          value |-> fresh.value, error |-> fresh.error, requests |-> 1]

(***************************************************************************)
(* Session state and the client timezone.                                  *)
(***************************************************************************)
EmptySession == [k \in {} |-> FALSE]

Put(s, key, val) == [k \in DOMAIN s \cup {key} |-> IF k = key THEN val ELSE s[k]]

\* st.session_state.clear()
clearOnlyAuthenticated(s) == [k \in DOMAIN s \ {"authenticated"} |-> s[k]]

clear(s) == EmptySession

FallbackTz == "UTC"

ClientTz == "Asia/Karachi"

\* Hours east of UTC.
Offset(tz) == IF tz = "Asia/Karachi" THEN 5 ELSE 0

\* get_user_timezone: the session's timezone when the key is present, else
\* the script is emitted and UTC returned.
get_user_timezone(s) ==
    IF "timezone" \notin DOMAIN s THEN [tz |-> FallbackTz, script |-> TRUE]
    ELSE [tz |-> s["timezone"], script |-> FALSE]

\* df.index.tz_localize("UTC").tz_convert(timezone): the same instants, read
\* on the target zone's wall clock.
Convert(series, tz) ==
    [i \in 1..Len(series) |-> [ts |-> series[i].ts + Offset(tz),
                               price |-> series[i].price]]

\* main: which page a script run shows.
main_viewInverted(s) == IF "authenticated" \in DOMAIN s THEN "login" ELSE "dashboard"

main_view(s) == IF "authenticated" \notin DOMAIN s THEN "login" ELSE "dashboard"

(***************************************************************************)
(* Script runs.  out describes the last run: the page, the button clicked, *)
(* the uncaught exception that ended it (if any), the st.error messages,   *)
(* what the two fetches did, and what was displayed.                       *)
(***************************************************************************)
BlankOut ==
    [view |-> "none", click |-> "none", coin |-> "none", auth |-> "none",
     exception |-> "", errors |-> {},
     quoteCalled |-> FALSE, quoteFailed |-> FALSE, quoteRequests |-> 0,
     quotes |-> EmptyQuotes,
     histCalled |-> FALSE, histFailed |-> FALSE, histRequests |-> 0,
     series |-> <<>>,
     display |-> NoDisplay, chart |-> NoChart, tzScript |-> FALSE,
     spoke |-> FALSE]

Msgs(S) == S \ {""}

\* show_login: the login page, and the Login button's handler.
show_login(username, password, click) ==
    /\ main_view(session) = "login"
    /\ rerun => ~click
    /\ IF ~click
       THEN /\ out' = [BlankOut EXCEPT !.view = "login"]
            /\ session' = session
            /\ rerun' = FALSE
       ELSE LET a  == authenticate(userFile, username, password)
                le == load_users(userFile).error
                o  == [BlankOut EXCEPT !.view = "login", !.click = "login",
                                       !.auth = a]
            IN  CASE a = "true" ->
                       /\ session' = Put(session, "authenticated", TRUE)
                       /\ rerun' = TRUE
                       /\ out' = [o EXCEPT !.errors = Msgs({le})]
                  [] a = "false" ->
                       /\ session' = session
                       /\ rerun' = FALSE
                       /\ out' = [o EXCEPT !.errors = Msgs({le, "Invalid credentials"})]
                  [] OTHER ->
                       /\ session' = session
                       /\ rerun' = FALSE
                       /\ out' = [o EXCEPT !.exception = "TypeError"]
    /\ UNCHANGED <<userFile, browserTz, now, quoteCache, histCache, fnVars>>

\* The Listen Report and Stop Reading handlers: the session they leave, the
\* exception a failing engine raises out of them, and whether audio played.
Buttons(s, click, engine_ok) ==
    CASE click = "listen" ->
            IF engine_ok
            THEN [session |-> Put(Put(s, "speaking", TRUE), "speaking", FALSE),
                  exception |-> "", spoke |-> TRUE]
            ELSE [session |-> Put(s, "speaking", TRUE),
                  exception |-> "RuntimeError", spoke |-> FALSE]
      [] click = "stop" ->
            [session |-> Put(s, "speaking", FALSE),
             exception |-> IF engine_ok THEN "" ELSE "RuntimeError",
             spoke |-> FALSE]
      [] OTHER -> [session |-> s, exception |-> "", spoke |-> FALSE]

\* render_dashboard and render_coin_details: one run of the dashboard page
\* with the selected coin, the button clicked (at most one per run), the
\* responses the API gives if asked, and whether the speech engine works.
render_dashboard(coin, click, qresp, hresp, engine_ok) ==
    /\ main_view(session) = "dashboard"
    /\ rerun => click = "none"
    /\ LET o0 == [BlankOut EXCEPT !.view = "dashboard", !.click = click,
                                  !.coin = coin]
       IN
       IF click = "logout"
       THEN /\ session' = clear(session)
            /\ rerun' = TRUE
            /\ out' = o0
            /\ UNCHANGED <<quoteCache, histCache>>
       ELSE
       LET q  == CachedCall(quoteCache, now, get_crypto_data(qresp))
           o1 == [o0 EXCEPT !.quoteCalled = TRUE,
                            !.quoteFailed = q.requests = 1 /\ qresp.status # "ok",
                            !.quoteRequests = q.requests,
                            !.quotes = q.value,
                            !.errors = Msgs({q.error})]
           d  == CoinDisplay(coin, q.value)
           b  == Buttons(session, click, engine_ok)
           h  == CachedCall(histCache[coin], now, get_historical_data(hresp))
           tz == get_user_timezone(b.session)
           o2 == [o1 EXCEPT !.display = d, !.spoke = b.spoke]
           o3 == [o2 EXCEPT !.histCalled = TRUE,
                            !.histFailed = h.requests = 1 /\ hresp.status # "ok",
                            !.histRequests = h.requests,
                            !.series = h.value,
                            !.errors = o1.errors \cup Msgs({h.error})]
       IN
       /\ rerun' = FALSE
       /\ quoteCache' = q.cache
       /\ IF IsEmptyDict(q.value)
          THEN /\ out' = [o1 EXCEPT !.errors =
                             @ \cup {"Unable to load crypto data at this time."}]
               /\ UNCHANGED <<session, histCache>>
          ELSE IF d.raised
          THEN /\ out' = [o1 EXCEPT !.exception = "AttributeError"]
               /\ UNCHANGED <<session, histCache>>
          ELSE IF b.exception # ""
          THEN /\ out' = [o2 EXCEPT !.exception = b.exception]
               /\ session' = b.session
               /\ UNCHANGED histCache
          ELSE /\ session' = b.session
               /\ histCache' = [histCache EXCEPT ![coin] = h.cache]
               /\ IF h.value # <<>>
                  THEN out' = [o3 EXCEPT !.chart = Chart(Convert(h.value, tz.tz), tz.tz),
                                         !.tzScript = tz.script]
                  ELSE out' = [o3 EXCEPT !.errors = @ \cup {"Unable to load data."}]
    /\ UNCHANGED <<userFile, browserTz, now, fnVars>>

(***************************************************************************)
(* The environment: the clock, the credential file, the browser.           *)
(***************************************************************************)
MaxTime == 120

TickSteps == {TTL - 1, TTL}

Tick(d) ==
    /\ now + d <= MaxTime
    /\ now' = now + d
    /\ UNCHANGED <<userFile, session, browserTz, quoteCache, histCache, rerun,
                   out, fnVars>>

UserFiles == {FileMissing, FileNull, FileObject([u \in {"alice"} |-> "pw"])}

\* user.json is replaced on disk.
WriteUserFile(f) ==
    /\ f # userFile
    /\ userFile' = f
    /\ UNCHANGED <<session, browserTz, now, quoteCache, histCache, rerun, out,
                   fnVars>>

\* The script emitted by get_user_timezone posts the browser's zone to the
\* parent window.  Nothing in the program receives the message.
BrowserPostsTimezone ==
    /\ out.tzScript
    /\ browserTz = "none"
    /\ browserTz' = ClientTz
    /\ UNCHANGED <<userFile, session, now, quoteCache, histCache, rerun, out,
                   fnVars>>

(***************************************************************************)
(* Responses of the price API used by the application specification.       *)
(***************************************************************************)
BtcEntry ==
    Entry(PyInt(<<5, 0, 0, 0, 0>>), PyInt(<<1, 0, 0, 0, 0, 0, 0>>),
          PyInt(<<9, 0, 0, 0, 0, 0, 0, 0, 0, 0, 0, 0>>))

EthEntry ==
    Entry(PyFloat(<<3, 0, 0, 0>>, <<5>>), PyFloat(<<1, 2, 3, 4>>, <<5, 6, 7>>), Null)

SampleQuotes == [c \in Coins |-> IF c = "bitcoin" THEN BtcEntry ELSE EthEntry]

NullBtcQuotes == [c \in Coins |-> IF c = "bitcoin" THEN NullEntry ELSE EthEntry]

QuoteResponses ==
    {QuoteResponse(st, EmptyQuotes) : st \in FailureStatus}
    \cup {QuoteResponse("ok", b) : b \in {SampleQuotes, NullBtcQuotes}}

Point(t, p) == [ts |-> t, price |-> p]

SampleSeries == <<Point(1, 10), Point(2, 12), Point(3, 12), Point(4, 9)>>

HistoryResponses ==
    {HistoryResponse(st, <<>>) : st \in FailureStatus \cup {"no_prices"}}
    \cup {HistoryResponse("ok", ps) : ps \in {<<>>, SampleSeries}}

NoProbe == [fn |-> "none", file |-> FileMissing, username |-> "", password |-> "",
            coin |-> "bitcoin", quotes |-> EmptyQuotes, series |-> <<>>]

NoResult == [auth |-> "none", display |-> NoDisplay, chart |-> NoChart]

Init ==
    /\ userFile \in UserFiles
    /\ session = EmptySession
    /\ browserTz = "none"
    /\ now = 0
    /\ quoteCache = <<>>
    /\ histCache = [c \in Coins |-> <<>>]
    /\ rerun = FALSE
    /\ out = BlankOut
    /\ probe = NoProbe
    /\ result = NoResult
    /\ pc = "idle"

\* The inputs of a dashboard run that the run can read: a response only for
\* a fetch whose cache entry does not answer, the engine only for a speech
\* button.
AnyQuoteResponse == QuoteResponse("ok", SampleQuotes)

AnyHistoryResponse == HistoryResponse("ok", SampleSeries)

QuoteInputs(R) == IF Hit(quoteCache, now) THEN {AnyQuoteResponse} ELSE R

HistoryInputs(coin, R) == IF Hit(histCache[coin], now) THEN {AnyHistoryResponse} ELSE R

EngineInputs(click) == IF click \in {"listen", "stop"} THEN BOOLEAN ELSE {TRUE}

(***************************************************************************)
(* The application specification: logins, logouts, dashboard runs with the *)
(* speech buttons, the credential file changing, the browser's timezone    *)
(* message, and the cache entries expiring.  The API either fails or       *)
(* answers with the sample data.                                           *)
(***************************************************************************)
GateQuoteResponses ==
    {QuoteResponse("transport", EmptyQuotes), QuoteResponse("ok", SampleQuotes)}

GateHistoryResponses ==
    {HistoryResponse("transport", <<>>), HistoryResponse("ok", SampleSeries)}

Login == \E u \in Usernames, p \in Passwords, click \in BOOLEAN : show_login(u, p, click)

Logout ==
    \E coin \in Coins :
        render_dashboard(coin, "logout", AnyQuoteResponse, AnyHistoryResponse, TRUE)

Dashboard ==
    \E coin \in Coins, click \in {"none", "listen", "stop"} :
        \E qresp \in QuoteInputs(GateQuoteResponses),
           hresp \in HistoryInputs(coin, GateHistoryResponses),
           engine_ok \in EngineInputs(click) :
            render_dashboard(coin, click, qresp, hresp, engine_ok)

Expire == Tick(TTL)

FileChange == \E f \in UserFiles : WriteUserFile(f)

Next == Login \/ Logout \/ Dashboard \/ Expire \/ FileChange \/ BrowserPostsTimezone

Spec == Init /\ [][Next]_vars

(***************************************************************************)
(* The memoization specification: one user logs in and reloads the         *)
(* dashboard while the clock advances in steps around the expiry time.     *)
(***************************************************************************)
LoginAlice == show_login("alice", "pw", TRUE)

Reload ==
    \E coin \in Coins :
        \E qresp \in QuoteInputs(QuoteResponses),
           hresp \in HistoryInputs(coin, HistoryResponses) :
            render_dashboard(coin, "none", qresp, hresp, TRUE)

Clock == \E d \in TickSteps : Tick(d)

InitCache == Init /\ userFile = FileObject([u \in {"alice"} |-> "pw"])

NextCache == LoginAlice \/ Reload \/ Clock

SpecCache == InitCache /\ [][NextCache]_vars

(***************************************************************************)
(* The pure functions on wider inputs: authenticate over every file state, *)
(* the value formatting over quotes with absent, null, zero, integer and   *)
(* fractional values, and the chart traces over every short series.        *)
(***************************************************************************)
AuthFiles ==
    {FileMissing, FileInvalid, FileNull}
    \cup {FileArray(S) : S \in SUBSET Usernames}
    \cup {FileObject(m) : m \in UNION {[D -> Passwords] : D \in SUBSET Usernames}}

AuthProbes ==
    {[NoProbe EXCEPT !.fn = "authenticate", !.file = f, !.username = u,
                     !.password = p] :
        f \in AuthFiles, u \in Usernames, p \in Passwords}

Values ==
    {Absent, Null, PyInt(<<0>>), PyFloat(<<0>>, <<0>>),
     PyInt(<<5, 0, 0, 0, 0>>), PyInt(<<1, 0, 0, 0, 0, 0, 0>>),
     PyInt(<<9, 0, 0, 0, 0, 0, 0, 0, 0, 0, 0, 0>>),
     PyFloat(<<5, 0, 0, 0, 0>>, <<0>>), PyFloat(<<1, 2, 3, 4>>, <<5>>),
     PyFloat(<<1, 2, 3, 4>>, <<5, 6>>), PyFloat(<<1, 2, 3, 4>>, <<5, 6, 7>>),
     PyFloat(<<0>>, <<1, 2, 5>>), PyFloat(<<0>>, <<3, 7, 5>>),
     PyFloat(<<9, 9, 9>>, <<9, 9, 6>>)}

ProbeEntries == {NoEntry, NullEntry} \cup {Entry(p, v, m) : p, v, m \in Values}

FormatProbes ==
    {[NoProbe EXCEPT !.fn = "render_coin_details", !.coin = "bitcoin",
                     !.quotes = [c \in Coins |-> IF c = "bitcoin" THEN e ELSE EthEntry]] :
        e \in ProbeEntries}

MaxPoints == 3

MaxPrice == 3

MaxStamp == 3

Points == {Point(t, p) : t \in 1..MaxStamp, p \in 1..MaxPrice}

\* Series as the API returns them: in time order, timestamps may repeat.
SeriesSet ==
    UNION {{s \in [1..n -> Points] : \A i \in 1..(n - 1) : s[i].ts <= s[i + 1].ts} :
              n \in 0..MaxPoints}

ChartProbes == {[NoProbe EXCEPT !.fn = "chart", !.series = s] : s \in SeriesSet}

InitPure ==
    /\ userFile = FileMissing
    /\ session = EmptySession
    /\ browserTz = "none"
    /\ now = 0
    /\ quoteCache = <<>>
    /\ histCache = [c \in Coins |-> <<>>]
    /\ rerun = FALSE
    /\ out = BlankOut
    /\ probe \in AuthProbes \cup FormatProbes \cup ChartProbes
    /\ result = NoResult
    /\ pc = "ready"

ApplyAuthenticate ==
    /\ pc = "ready" /\ probe.fn = "authenticate"
    /\ result' = [NoResult EXCEPT
                    !.auth = authenticate(probe.file, probe.username, probe.password)]
    /\ pc' = "done"
    /\ UNCHANGED <<appVars, probe>>

ApplyCoinDisplay ==
    /\ pc = "ready" /\ probe.fn = "render_coin_details"
    /\ result' = [NoResult EXCEPT !.display = CoinDisplay(probe.coin, probe.quotes)]
    /\ pc' = "done"
    /\ UNCHANGED <<appVars, probe>>

ApplyChart ==
    /\ pc = "ready" /\ probe.fn = "chart"
    /\ LET tz == get_user_timezone(session).tz
       IN  result' = [NoResult EXCEPT !.chart = Chart(Convert(probe.series, tz), tz)]
    /\ pc' = "done"
    /\ UNCHANGED <<appVars, probe>>

NextPure == ApplyAuthenticate \/ ApplyCoinDisplay \/ ApplyChart

SpecPure == InitPure /\ [][NextPure]_vars

(***************************************************************************)
(* Properties.                                                             *)
(***************************************************************************)
Authenticated == "authenticated" \in DOMAIN session

\* A step that is a script run: the environment's variables are unchanged.
RunStep == now' = now /\ userFile' = userFile /\ browserTz' = browserTz

\* C1.  Access gate: the dashboard is only rendered by a run that starts with
\* the authenticated flag present; the flag appears only in a run whose
\* Login click made authenticate return true, and stays until a Logout
\* click; after a failed (or raising) login attempt the flag is absent and
\* the login view is shown.
C1_GateInv ==
    /\ (out.view = "dashboard" /\ out.click # "logout") => Authenticated
    /\ out.auth \in {"false", "raise"} => (~Authenticated /\ out.view = "login")

C1_GateStep ==
    /\ (RunStep /\ out'.view = "dashboard") => Authenticated
    /\ (~Authenticated /\ Authenticated') => (out'.click = "login" /\ out'.auth = "true")
    /\ (Authenticated /\ ~Authenticated') => out'.click = "logout"

C1_AccessGate == []C1_GateInv /\ [][C1_GateStep]_vars

C1_Witness ==
    /\ Authenticated
    /\ out.view = "dashboard"
    /\ out.display.report # ""

\* C2.  Logout empties the whole session state in its own run (the
\* authenticated flag and the speaking flag together), and the run that
\* follows a logout shows the login view, also when the quote fetch of the
\* dashboard fails.
C2_LogoutInv == out.click = "logout" => (session = EmptySession /\ rerun)

C2_LogoutStep ==
    (RunStep /\ out.click = "logout") => (out'.view = "login" /\ out'.click = "none")

C2_LogoutClears == []C2_LogoutInv /\ [][C2_LogoutStep]_vars

C2_Witness ==
    /\ out.click = "logout"
    /\ session = EmptySession
    /\ quoteCache # <<>>
    /\ now - quoteCache[1].stored < TTL
    /\ IsEmptyDict(quoteCache[1].value)

\* C4.  Memoization: a call of get_crypto_data, or of get_historical_data
\* for the same crypto_id, made less than 60 s after the entry was stored
\* issues no request and returns the stored value, whether that value is data
\* or the empty result of a failed fetch; an entry is replaced only by a call
\* made 60 s or more after it was stored, with exactly one request.
InWindow(cache) == cache # <<>> /\ now - cache[1].stored < TTL

C4_Step ==
    /\ (RunStep /\ out'.quoteCalled /\ InWindow(quoteCache)) =>
          /\ out'.quoteRequests = 0
          /\ out'.quotes = quoteCache[1].value
          /\ quoteCache' = quoteCache
    /\ \A c \in Coins :
          (RunStep /\ out'.histCalled /\ out'.coin = c /\ InWindow(histCache[c])) =>
              /\ out'.histRequests = 0
              /\ out'.series = histCache[c][1].value
              /\ histCache' = histCache
    /\ quoteCache' # quoteCache =>
          /\ ~InWindow(quoteCache)
          /\ out'.quoteRequests = 1
          /\ quoteCache' = <<[value |-> out'.quotes,
                              error |-> quoteCache'[1].error, stored |-> now]>>
    /\ \A c \in Coins :
          histCache'[c] # histCache[c] =>
              /\ ~InWindow(histCache[c])
              /\ out'.histRequests = 1
              /\ histCache'[c][1].value = out'.series
              /\ histCache'[c][1].stored = now

C4_Memoization == [][C4_Step]_vars

C4_Witness ==
    /\ out.quoteCalled /\ out.quoteRequests = 0
    /\ out.histCalled /\ out.histRequests = 0
    /\ now = TTL - 1
    /\ quoteCache[1].stored = 0

\* C5.  Fetch failure handling: a fetch whose GET failed (transport error,
\* HTTP error status, unparsable body, body without prices) made exactly one
\* request, showed its error, returned the empty result and raised nothing,
\* and the run that called it ended with the inline error of the dashboard
\* instead of an exception.
C5_FetchFailure ==
    /\ out.quoteRequests <= 1 /\ out.histRequests <= 1
    /\ out.quoteFailed =>
          /\ out.quoteRequests = 1
          /\ out.quotes = EmptyQuotes
          /\ "Error fetching crypto data" \in out.errors
          /\ "Unable to load crypto data at this time." \in out.errors
          /\ out.exception = ""
          /\ ~out.histCalled
    /\ out.histFailed =>
          /\ out.histRequests = 1
          /\ out.series = <<>>
          /\ "Error fetching historical data" \in out.errors
          /\ "Unable to load data." \in out.errors
          /\ out.exception = ""
          /\ ~out.chart.drawn

C5_Witness == out.histFailed /\ out.quoteCalled /\ ~out.quoteFailed

\* C8.  Client timezone: before the browser's message the chart uses UTC;
\* once the browser has posted its zone, every later run that draws the chart
\* converts the timestamps to that zone.
C8_TimezoneStep ==
    (RunStep /\ out'.chart.drawn) =>
        out'.chart.tz = (IF browserTz = "none" THEN FallbackTz ELSE browserTz)

C8_TimezoneCaptured == [][C8_TimezoneStep]_vars

\* C9.  Speech is fire-and-forget: after a run whose Listen Report or Stop
\* Reading handler ran, whether the engine worked or failed, the speaking
\* flag is false, no exception ended the run, the session is still
\* authenticated and the historical chart section was reached.
C9_SpeechIsolated ==
    (out.click \in {"listen", "stop"} /\ out.display.report # "") =>
        /\ "speaking" \in DOMAIN session /\ session["speaking"] = FALSE
        /\ Authenticated
        /\ out.exception = ""
        /\ out.histCalled

\* C3.  authenticate returns true exactly when the credential file is a
\* JSON object that maps the username to exactly the password, and returns
\* false, without raising, for every other file state (missing file, invalid
\* text, JSON that is not an object).
C3_AuthenticateExact ==
    (pc = "done" /\ probe.fn = "authenticate") =>
        result.auth =
            (IF /\ probe.file.kind = "object"
                /\ probe.username \in DOMAIN probe.file.map
                /\ probe.file.map[probe.username] = probe.password
             THEN "true" ELSE "false")

\* C6.  Dual-trace partition: the up trace holds exactly the points i >= 2
\* (in time order) whose price is above the previous point's, the down trace
\* those whose price is below it; the first point and points with an equal
\* price are in neither, and each trace's y values are the prices of its own
\* points, also when timestamps repeat.
RECURSIVE Ascending(_)
Ascending(S) ==
    IF S = {} THEN <<>>
    ELSE LET m == CHOOSE x \in S : \A y \in S : x <= y
         IN  <<m>> \o Ascending(S \ {m})

Rising(s) == {i \in 2..Len(s) : s[i].price > s[i - 1].price}

Falling(s) == {i \in 2..Len(s) : s[i].price < s[i - 1].price}

HoldsPoints(trace, s, S) ==
    LET idx == Ascending(S) IN
    /\ trace.x = [k \in 1..Len(idx) |-> s[idx[k]].ts]
    /\ trace.y = [k \in 1..Len(idx) |-> s[idx[k]].price]

C6_DualTrace ==
    (pc = "done" /\ probe.fn = "chart") =>
        /\ Rising(probe.series) \cap Falling(probe.series) = {}
        /\ 1 \notin Rising(probe.series) \cup Falling(probe.series)
        /\ HoldsPoints(result.chart.up, probe.series, Rising(probe.series))
        /\ HoldsPoints(result.chart.down, probe.series, Falling(probe.series))

\* C7.  Currency formatting: when price, volume and market cap are all
\* present, each metric shows '$', the number with thousands separators and
\* exactly two decimal places, and the report sentence carries the same
\* three strings.
IsNumber(v) == v.kind \in {"int", "float"}

TwoPlaces(fs) == IF Len(fs) = 0 THEN <<0, 0>> ELSE IF Len(fs) = 1 THEN fs \o <<0>> ELSE fs

TwoDecimalMoney(v) ==
    LET r == round2(v) IN "$" \o Commas(r.ip) \o "." \o Str(TwoPlaces(r.fp))

C7_TwoDecimals ==
    LET e == probe.quotes[probe.coin] IN
    (/\ pc = "done" /\ probe.fn = "render_coin_details"
     /\ e.kind = "dict"
     /\ IsNumber(e.usd) /\ IsNumber(e.usd_24h_vol) /\ IsNumber(e.usd_market_cap)) =>
        /\ ~result.display.raised
        /\ result.display.price = TwoDecimalMoney(e.usd)
        /\ result.display.volume = TwoDecimalMoney(e.usd_24h_vol)
        /\ result.display.market_cap = TwoDecimalMoney(e.usd_market_cap)
        /\ result.display.report =
              ReportText(CoinName(probe.coin), result.display.price,
                         result.display.volume, result.display.market_cap)

\* C10.  Missing quote fields: when the selected coin's entry, or any of its
\* three fields, is absent or null, rendering does not raise and shows the
\* field exactly as it shows a field whose value is zero, in the metric and
\* in the report, while the present fields keep their values.
ZeroIfMissing(v) == IF v.kind \in {"absent", "null"} THEN Zero ELSE v

ZeroFilled(e) ==
    IF e.kind \in {"absent", "null"} THEN Entry(Zero, Zero, Zero)
    ELSE Entry(ZeroIfMissing(e.usd), ZeroIfMissing(e.usd_24h_vol),
               ZeroIfMissing(e.usd_market_cap))

C10_MissingAsZero ==
    (pc = "done" /\ probe.fn = "render_coin_details") =>
        /\ ~result.display.raised
        /\ result.display =
              CoinDisplay(probe.coin,
                          [probe.quotes EXCEPT ![probe.coin] = ZeroFilled(@)])

====
